---- MODULE Spec2Model ----
(***************************************************************************)
(* Model of ross/results.py: the Results array subclass (attribute         *)
(* registry, propagation in __array_finalize__, pickling through           *)
(* __reduce__ / __setstate__) and the effect of the plot methods of its    *)
(* six subclasses on the instances.                                        *)
(*                                                                         *)
(* Heap: inst is the sequence of Results objects alive, bufs the data      *)
(* buffers they view (a slice shares its parent's buffer), maps the dict   *)
(* objects that _new_attributes refers to (the dict passed to __new__ is   *)
(* stored by reference).  Payload values are exact rationals <<num, den>>; *)
(* attribute values are opaque tokens, 0 standing for "no such attribute". *)
(* Attribute names are ordinary metadata names: none of them is a name of  *)
(* numpy.ndarray itself or "_new_attributes".                              *)
(*                                                                         *)
(* What the plot methods draw is modelled by the Render actions: env is    *)
(* the state of the plotting libraries that outlives a call (the file      *)
(* bokeh's output_file has set, the curves on the pair of matplotlib axes  *)
(* the caller keeps), shown the arguments and the drawing of the last      *)
(* plot call.                                                              *)
(***************************************************************************)
EXTENDS Integers, Sequences, FiniteSets, TLC

VARIABLES inst, bufs, maps, file, last, argK, argP, argA, edits, env, shown

vars == <<inst, bufs, maps, file, last, argK, argP, argA, edits, env, shown>>

-----------------------------------------------------------------------------
(* Bounds of the model *)

MaxInst == 3
\* number of nodes of the rotor whose mode shapes are stored
NNodes == 2
\* number of modes (columns) of a payload
NCols == 2
\* caller-side rebindings allowed in SpecAlias
MaxEdits == 1

\* degrees of freedom per node: the stride of evec0[0::4], evec0[1::4]
DofPerNode == 4

NRows == DofPerNode * NNodes

-----------------------------------------------------------------------------
(* Exact rational arithmetic for payload values *)

RECURSIVE Gcd(_, _)
Gcd(a, b) == IF b = 0 THEN a ELSE Gcd(b, a % b)

IAbs(n) == IF n < 0 THEN -n ELSE n

Rat(n) == <<n, 1>>

RNorm(q) ==
    LET g == Gcd(IAbs(q[1]), IAbs(q[2]))
        s == IF q[2] < 0 THEN -1 ELSE 1
    IN  <<s * (q[1] \div g), s * (q[2] \div g)>>

RDiv(a, b) == RNorm(<<a[1] * b[2], a[2] * b[1]>>)

RAbs(a) == <<IAbs(a[1]), a[2]>>

RLess(a, b) == a[1] * b[2] < b[1] * a[2]

-----------------------------------------------------------------------------
(* Classes, attribute names and creation inputs *)

Kinds == {"Results", "CampbellResults", "FrequencyResponseResults",
          "ForcedResponseResults", "ModeShapeResults", "StaticResults",
          "ConvergenceResults"}

\* attributes each plot reads, in the order the code reads them
FreqAttrs == <<"frequency_range", "magnitude", "phase">>
ForcedAttrs == <<"frequency_range", "magnitude", "phase">>
ModeShapeAttrs == <<"nodes", "nodes_pos", "kappa_modes", "elements_length">>
ModeShapeTitleAttrs == <<"w", "wd", "log_dec">>
StaticAttrs == <<"df_shaft", "df_disks", "df_bearings", "nodes", "nodes_pos",
                 "Vx_axis">>

Range(s) == {s[i] : i \in DOMAIN s}

Names == Range(FreqAttrs) \cup Range(ForcedAttrs) \cup Range(ModeShapeAttrs)
         \cup Range(ModeShapeTitleAttrs) \cup Range(StaticAttrs)

Absent == 0
Vals == {1, 2}

\* a dict of attributes: total over Names, Absent where the key is missing
MapOn(S, v) == [n \in Names |-> IF n \in S THEN v ELSE Absent]
EmptyMap == MapOn({}, Absent)
Keys(m) == {n \in Names : m[n] # Absent}

\* metadata given to the kinds whose plot reads no attribute
GenericNames == {"frequency_range", "nodes"}

Required(k) ==
    CASE k = "FrequencyResponseResults" -> Range(FreqAttrs)
      [] k = "ForcedResponseResults" -> Range(ForcedAttrs)
      [] k = "ModeShapeResults" ->
            Range(ModeShapeAttrs) \cup Range(ModeShapeTitleAttrs)
      [] k = "StaticResults" -> Range(StaticAttrs)
      [] OTHER -> GenericNames

\* the attribute sets tried for a kind: all it needs, and all but one
NameSets(k) == {Required(k)} \cup {Required(k) \ {n} : n \in Required(k)}

\* the new_attributes argument: a dict, or one of the non-mappings
DictArg(m) == [tp |-> "dict", m |-> m]
NonMappings == {[tp |-> t, m |-> EmptyMap] : t \in {"None", "list", "scalar"}}

\* payloads: x and y amplitudes of every node set by xa, ya, the two
\* rotations of each node distinct; no entry is zero
PayloadOf(xa, ya) ==
    [r \in 1..NRows |->
        [c \in 1..NCols |->
            IF (r - 1) % DofPerNode = 0 THEN Rat(xa * c)
            ELSE IF (r - 1) % DofPerNode = 1 THEN Rat(ya * c)
            ELSE Rat(r + c)]]
\* the kinds whose code never looks at the values get one payload; the mode
\* shapes get one where x dominates and one where y does
Payloads(k) ==
    IF k = "ModeShapeResults"
    THEN {PayloadOf(3, 1), PayloadOf(1, 3)}
    ELSE {PayloadOf(1, 3)}

-----------------------------------------------------------------------------
(* Objects *)

NoFile == [cls |-> "", state |-> <<>>, stop |-> FALSE, src |-> 0,
           srcP |-> <<>>, srcA |-> EmptyMap, damage |-> "nofile"]

\* what the last call was: its name, the instance it was called on, its input
\* (the type of new_attributes, the state of the file read, the mode
\* plotted), the instance it returned (0: none) and the error it raised
Outcome(op, who, inp, res, err) ==
    [op |-> op, who |-> who, inp |-> inp, res |-> res, err |-> err]

\* the array an instance views: rows lo+1..hi of its buffer
Payload(x) == SubSeq(bufs[x.buf], x.lo + 1, x.hi)

NumRows(x) == x.hi - x.lo

HasRegistry(x) == x.reg # 0

\* getattr(obj, k) on an instance: 0 when it raises AttributeError
GetAttr(x, k) == x.fields[k]

\* bokeh has no output file set; the caller's two axes are empty
NoEnv == [file |-> "", held0 |-> 0, held1 |-> 0]

\* what a plot call leaves in shown: its name, its output_html flag, the
\* file show() wrote ("": none), the error the call ends in, its
\* arguments and what it drew
Shown(op, flag, wrote, err, arg, out) ==
    [op |-> op, flag |-> flag, wrote |-> wrote, err |-> err, arg |-> arg,
     out |-> out]

NoShow == Shown("none", FALSE, "", "none", <<>>, <<>>)

Init ==
    /\ env = NoEnv
    /\ shown = NoShow
    /\ inst = <<>>
    /\ bufs = [b \in 1..MaxInst |-> <<>>]
    /\ maps = [m \in 1..MaxInst |-> EmptyMap]
    /\ file = NoFile
    /\ last = Outcome("init", 0, "", 0, "none")
    /\ argK \in Kinds
    /\ argP \in Payloads(argK)
    /\ \E S \in NameSets(argK) : argA = DictArg(MapOn(S, 1))
    /\ edits = 0

-----------------------------------------------------------------------------
(* Results.__new__ *)

\* variant: None is taken for an empty dict (new_attributes or {})
HasItemsLenient(arg) == arg.tp \in {"dict", "None"}

\* new_attributes.items() exists
HasItems(arg) == arg.tp = "dict"

\* for k, v in new_attributes.items(): setattr(obj, k, v)
NewFields(arg) == [n \in Names |-> arg.m[n]]

\* variant: no try/except around the loop over obj._new_attributes
ArrayFinalizeRaising(obj) ==
    IF ~HasRegistry(obj)
    THEN [fields |-> EmptyMap, reg |-> 0, err |-> "AttributeError"]
    ELSE [fields |-> [n \in Names |->
                        IF maps[obj.reg][n] = Absent THEN Absent
                        ELSE IF GetAttr(obj, n) # Absent THEN GetAttr(obj, n)
                        ELSE maps[obj.reg][n]],
          reg |-> 0, err |-> "none"]

\* __array_finalize__(self, obj): the fields and the registry the new object
\* gets from obj, the object it is derived from (obj.reg = 0: obj has no
\* _new_attributes, so the loop raises AttributeError, which is swallowed)
\* err is the exception that leaves __array_finalize__: never one
ArrayFinalize(obj) ==
    IF ~HasRegistry(obj)
    THEN [fields |-> EmptyMap, reg |-> 0, err |-> "none"]
    ELSE [fields |-> [n \in Names |->
                        IF maps[obj.reg][n] = Absent THEN Absent
                        ELSE IF GetAttr(obj, n) # Absent THEN GetAttr(obj, n)
                        ELSE maps[obj.reg][n]],
          reg |-> 0, err |-> "none"]

\* a plain numpy array, the obj of the view taken in __new__
PlainArray == [cls |-> "ndarray", buf |-> 0, lo |-> 0, hi |-> 0,
               fields |-> EmptyMap, reg |-> 0, how |-> "plain", src |-> 0]

New(arg) ==
    /\ Len(inst) < MaxInst
    /\ LET id == Len(inst) + 1
           viewed == ArrayFinalize(PlainArray)
       IN  IF viewed.err # "none" \/ ~HasItems(arg)
           THEN /\ last' = Outcome("create", 0, arg.tp, 0, "AttributeError")
                /\ UNCHANGED <<inst, bufs, maps>>
           ELSE /\ inst' = Append(inst,
                       [cls |-> argK, buf |-> id, lo |-> 0, hi |-> NRows,
                        fields |-> [n \in Names |->
                                      IF NewFields(arg)[n] # Absent
                                      THEN NewFields(arg)[n]
                                      ELSE viewed.fields[n]],
                        reg |-> id,
                        how |-> "create", src |-> 0])
                /\ bufs' = [bufs EXCEPT ![id] = argP]
                \* obj._new_attributes = new_attributes: maps[id] is the
                \* caller's dict itself, not a copy of it
                /\ maps' = [maps EXCEPT ![id] = arg.m]
                /\ last' = Outcome("create", 0, arg.tp, id, "none")
    /\ UNCHANGED <<file, argK, argP, argA, edits, env, shown>>

Create == \E arg \in {argA} \cup NonMappings : New(arg)

-----------------------------------------------------------------------------
(* Derived objects: X[a:b] is a view on X's buffer, X.copy() owns its data; *)
(* both are finalized from X                                                *)

\* X[:] and X[:-1]
Slices(n) == {s \in {<<0, n>>, <<0, n - 1>>} : s[1] < s[2]}

Slice ==
    /\ Len(inst) < MaxInst
    /\ \E i \in 1..Len(inst) : \E s \in Slices(NumRows(inst[i])) :
         LET x == inst[i]
             id == Len(inst) + 1
             f == ArrayFinalize(x)
         IN  IF f.err # "none"
             THEN /\ last' = Outcome("slice", i, "", 0, f.err)
                  /\ UNCHANGED inst
             ELSE /\ inst' = Append(inst,
                         [cls |-> x.cls, buf |-> x.buf, lo |-> x.lo + s[1],
                          hi |-> x.lo + s[2], fields |-> f.fields,
                          reg |-> f.reg, how |-> "slice", src |-> i])
                  /\ last' = Outcome("slice", i, "", id, "none")
    /\ UNCHANGED <<bufs, maps, file, argK, argP, argA, edits, env, shown>>

Copy ==
    /\ Len(inst) < MaxInst
    /\ \E i \in 1..Len(inst) :
         LET x == inst[i]
             id == Len(inst) + 1
             f == ArrayFinalize(x)
         IN  IF f.err # "none"
             THEN /\ last' = Outcome("copy", i, "", 0, f.err)
                  /\ UNCHANGED <<inst, bufs>>
             ELSE /\ inst' = Append(inst,
                         [cls |-> x.cls, buf |-> id, lo |-> 0,
                          hi |-> NumRows(x), fields |-> f.fields,
                          reg |-> f.reg, how |-> "copy", src |-> i])
                  /\ bufs' = [bufs EXCEPT ![id] = Payload(x)]
                  /\ last' = Outcome("copy", i, "", id, "none")
    /\ UNCHANGED <<maps, file, argK, argP, argA, edits, env, shown>>

-----------------------------------------------------------------------------
(* Pickling: save() dumps the object through __reduce__ into the file;     *)
(* loading the file rebuilds an object through __setstate__                *)

\* rawdata of ndarray.__reduce__: the viewed rows, row by row
Flatten(M) ==
    LET c == Len(M[1])
    IN  [k \in 1..(Len(M) * c) |-> M[((k - 1) \div c) + 1][((k - 1) % c) + 1]]

Unflatten(shape, data) ==
    [r \in 1..shape[1] |->
        [c \in 1..shape[2] |-> data[(r - 1) * shape[2] + c]]]

\* super().__reduce__()[2]: (version, shape, dtype, is_fortran, rawdata)
NdarrayState(x) ==
    <<1, <<NumRows(x), Len(Payload(x)[1])>>, "f8", FALSE, Flatten(Payload(x))>>

\* self._new_attributes raises AttributeError when the object has none
ReduceRaises(x) == ~HasRegistry(x)

\* new_state = pickled_state[2] + (self._new_attributes,)
Reduce(x) == NdarrayState(x) \o <<DictArg(maps[x.reg])>>

Save ==
    /\ \E i \in 1..Len(inst) :
         LET x == inst[i]
         IN  IF ReduceRaises(x)
             THEN /\ last' = Outcome("save", i, "", 0, "AttributeError")
                  /\ UNCHANGED file
             ELSE /\ file' = [cls |-> x.cls, state |-> Reduce(x), stop |-> TRUE,
                              src |-> i, srcP |-> Payload(x),
                              srcA |-> maps[x.reg], damage |-> "none"]
                  /\ last' = Outcome("save", i, "", 0, "none")
    /\ UNCHANGED <<inst, bufs, maps, argK, argP, argA, edits, env, shown>>

\* the file loses its end: the STOP opcode and the last items of the state
Truncate ==
    /\ file.damage = "none"
    /\ \E k \in {0, Len(file.state)} :
         file' = [file EXCEPT !.state = SubSeq(file.state, 1, k),
                              !.stop = FALSE, !.damage = "truncated"]
    /\ last' = Outcome("truncate", 0, "", 0, "none")
    /\ UNCHANGED <<inst, bufs, maps, argK, argP, argA, edits, env, shown>>

BadVal == Rat(7)

\* one item of the stored state is overwritten
Corrupted(st, how) ==
    CASE how = "dims" -> [st EXCEPT ![2] = <<st[2][2], st[2][1]>>]
      [] how = "size" -> [st EXCEPT ![2] = <<st[2][1] + 1, st[2][2]>>]
      [] how = "data" -> [st EXCEPT ![5] = [st[5] EXCEPT ![1] = BadVal]]
      [] OTHER -> [st EXCEPT ![6] = [tp |-> "None", m |-> EmptyMap]]

Corruptions == {"dims", "size", "data", "attrtype"}

Corrupt ==
    /\ file.damage = "none"
    /\ \E how \in Corruptions :
         /\ Corrupted(file.state, how) # file.state
         /\ file' = [file EXCEPT !.state = Corrupted(file.state, how),
                                 !.damage = how]
    /\ last' = Outcome("corrupt", 0, "", 0, "none")
    /\ UNCHANGED <<inst, bufs, maps, argK, argP, argA, edits, env, shown>>

\* variant: a last item without items() is taken for no attributes
SetstateErrorLenient(state) ==
    LET nd == SubSeq(state, 1, Len(state) - 1)
    IN  IF nd[2][1] * nd[2][2] # Len(nd[5]) THEN "ValueError" ELSE "none"

\* __setstate__(self, state): the error it ends in, "none" when it returns
SetstateError(state) ==
    LET attrs == state[Len(state)]
        nd == SubSeq(state, 1, Len(state) - 1)
    IN  IF ~HasItems(attrs) THEN "AttributeError"
        ELSE IF nd[2][1] * nd[2][2] # Len(nd[5]) THEN "ValueError"
        ELSE "none"

\* variant: the registry is restored but the setattr loop is missing
SetstateNoFields(state) ==
    LET attrs == state[Len(state)]
        nd == SubSeq(state, 1, Len(state) - 1)
    IN  [registry |-> attrs.m,
         fields |-> EmptyMap,
         payload |-> Unflatten(nd[2], nd[5])]

\* the fields, the registry dict and the payload __setstate__ installs
Setstate(state) ==
    LET attrs == state[Len(state)]
        nd == SubSeq(state, 1, Len(state) - 1)
    IN  [registry |-> attrs.m,
         fields |-> [n \in Names |-> attrs.m[n]],
         payload |-> Unflatten(nd[2], nd[5])]

\* pickle.load of the file
LoadError(f) ==
    IF ~f.stop THEN "UnpicklingError" ELSE SetstateError(f.state)

Load ==
    /\ Len(inst) < MaxInst
    /\ file.damage # "nofile"
    /\ LET id == Len(inst) + 1
           err == LoadError(file)
           got == Setstate(file.state)
       IN  IF err # "none"
           THEN /\ last' = Outcome("load", file.src, file.damage, 0, err)
                /\ UNCHANGED <<inst, bufs, maps>>
           ELSE /\ inst' = Append(inst,
                       [cls |-> file.cls, buf |-> id, lo |-> 0,
                        hi |-> Len(got.payload), fields |-> got.fields,
                        reg |-> id, how |-> "load", src |-> file.src])
                /\ bufs' = [bufs EXCEPT ![id] = got.payload]
                /\ maps' = [maps EXCEPT ![id] = got.registry]
                /\ last' = Outcome("load", file.src, file.damage, id, "none")
    /\ UNCHANGED <<file, argK, argP, argA, edits, env, shown>>

-----------------------------------------------------------------------------
(* plot.  Attribute values are opaque, so the drawing itself is not        *)
(* computed: what is modelled is the order of the attribute reads, the     *)
(* writes to the payload and the error the call ends in.  The payload has  *)
(* the shape the kind's contract gives it, NRows rows before any slicing.  *)

\* the first name of attrs that self.<name> fails on, "" when all are there
RECURSIVE FirstMissing(_, _)
FirstMissing(x, attrs) ==
    IF attrs = <<>> THEN ""
    ELSE IF GetAttr(x, Head(attrs)) = Absent THEN Head(attrs)
    ELSE FirstMissing(x, Tail(attrs))

AttrError(x, attrs) ==
    IF FirstMissing(x, attrs) = "" THEN "none" ELSE "AttributeError"

\* variant: the base plot returns
BasePlotReturns == "none"

\* Results.plot: raise NotImplementedError
BasePlotError == "NotImplementedError"

PlotBase ==
    /\ \E i \in 1..Len(inst) :
         /\ inst[i].cls = "Results"
         /\ last' = Outcome("plot", i, "", 0, BasePlotError)
    /\ UNCHANGED <<inst, bufs, maps, file, argK, argP, argA, edits, env, shown>>

\* a plot that reads the payload and the attributes attrs, and writes
\* neither: what it leaves in last
Reading(i, attrs) == Outcome("plot", i, "", 0, AttrError(inst[i], attrs))

PlotCampbell ==
    /\ \E i \in 1..Len(inst) :
         /\ inst[i].cls = "CampbellResults"
         /\ last' = Reading(i, <<>>)
    /\ UNCHANGED <<inst, bufs, maps, file, argK, argP, argA, edits, env, shown>>

\* plot -> plot_magnitude, plot_phase
PlotFrequencyResponse ==
    /\ \E i \in 1..Len(inst) :
         /\ inst[i].cls = "FrequencyResponseResults"
         /\ last' = Reading(i, FreqAttrs)
    /\ UNCHANGED <<inst, bufs, maps, file, argK, argP, argA, edits, env, shown>>

PlotForcedResponse ==
    /\ \E i \in 1..Len(inst) :
         /\ inst[i].cls = "ForcedResponseResults"
         /\ last' = Reading(i, ForcedAttrs)
    /\ UNCHANGED <<inst, bufs, maps, file, argK, argP, argA, edits, env, shown>>

PlotStatic ==
    /\ \E i \in 1..Len(inst) :
         /\ inst[i].cls = "StaticResults"
         /\ last' = Reading(i, StaticAttrs)
    /\ UNCHANGED <<inst, bufs, maps, file, argK, argP, argA, edits, env, shown>>

PlotConvergence ==
    /\ \E i \in 1..Len(inst) :
         /\ inst[i].cls = "ConvergenceResults"
         /\ last' = Reading(i, <<>>)
    /\ UNCHANGED <<inst, bufs, maps, file, argK, argP, argA, edits, env, shown>>

\* v[off::4]
Strided(v, off) ==
    LET n == IF Len(v) > off
             THEN (Len(v) - off + DofPerNode - 1) \div DofPerNode ELSE 0
    IN  [k \in 1..n |-> v[off + DofPerNode * (k - 1) + 1]]

\* np.argmax(abs(v)): the first index where abs(v) is largest
ArgMaxAbs(v) ==
    CHOOSE i \in 1..Len(v) :
        /\ \A j \in 1..Len(v) : ~RLess(RAbs(v[i]), RAbs(v[j]))
        /\ \A j \in 1..(i - 1) : RLess(RAbs(v[j]), RAbs(v[i]))

\* ymax > 0.4 * xmax
YDominates(xmax, ymax) == RLess(<<2 * xmax[1], 5 * xmax[2]>>, ymax)

\* the value evec0 is divided by
Pivot(evec0) ==
    LET modex == Strided(evec0, 0)
        modey == Strided(evec0, 1)
        ix == ArgMaxAbs(modex)
        iy == ArgMaxAbs(modey)
    IN  IF YDominates(RAbs(modex[ix]), RAbs(modey[iy]))
        THEN modey[iy] ELSE modex[ix]

\* evec0 /= pivot
Normalized(evec0, pivot) == [r \in 1..Len(evec0) |-> RDiv(evec0[r], pivot)]

\* evec0 = self[:, mode]
Column(x, mode) == [r \in 1..NumRows(x) |-> bufs[x.buf][x.lo + r][mode + 1]]

\* evec0 is a view: what the division stores in the buffer of x
PlotModeShapeWrites(x, mode, out) ==
    [bufs EXCEPT ![x.buf] =
        [r \in 1..Len(bufs[x.buf]) |->
            IF r > x.lo /\ r <= x.hi
            THEN [bufs[x.buf][r] EXCEPT ![mode + 1] = out[r - x.lo]]
            ELSE bufs[x.buf][r]]]

\* max(abs(modey)) of an empty modey
NormalizeError(x) == IF NumRows(x) < 2 THEN "ValueError" ELSE "none"

\* modex[node], evec0[xx] for the nodes and elements of the rotor; zn[-1]
DrawError(x) ==
    IF NNodes < 2 \/ NumRows(x) < DofPerNode * NNodes
    THEN "IndexError" ELSE "none"

PlotModeShape ==
    /\ \E i \in 1..Len(inst) : \E mode \in 0..(NCols - 1) :
         LET x == inst[i]
         IN  /\ x.cls = "ModeShapeResults"
             /\ IF AttrError(x, ModeShapeAttrs) # "none"
                THEN /\ last' = Outcome("plot", i, "early", 0, "AttributeError")
                     /\ UNCHANGED bufs
                ELSE IF NormalizeError(x) # "none"
                THEN /\ last' = Outcome("plot", i, "early", 0, NormalizeError(x))
                     /\ UNCHANGED bufs
                ELSE /\ \E p \in {Pivot(Column(x, mode))} :
                          bufs' = PlotModeShapeWrites(x, mode,
                                     Normalized(Column(x, mode), p))
                     /\ last' = Outcome("plot", i, "normalized", 0,
                                   IF DrawError(x) # "none" THEN DrawError(x)
                                   ELSE AttrError(x, ModeShapeTitleAttrs))
    /\ UNCHANGED <<inst, maps, file, argK, argP, argA, edits, env, shown>>

Plot ==
    \/ PlotBase
    \/ PlotCampbell
    \/ PlotFrequencyResponse
    \/ PlotForcedResponse
    \/ PlotModeShape
    \/ PlotStatic
    \/ PlotConvergence

-----------------------------------------------------------------------------
(* What the caller can do to the objects it holds: nothing in the class   *)
(* prevents it                                                            *)

EditNames == GenericNames

\* A[k] = v, or del A[k] (v = Absent), on the dict passed to __new__
SetItem ==
    /\ edits < MaxEdits
    /\ \E i \in 1..Len(inst) : \E k \in EditNames : \E v \in Vals \cup {Absent} :
         /\ inst[i].how = "create"
         /\ maps[i][k] # v
         /\ maps' = [maps EXCEPT ![i][k] = v]
         /\ last' = Outcome("setitem", i, k, 0, "none")
    /\ edits' = edits + 1
    /\ UNCHANGED <<inst, bufs, file, argK, argP, argA, env, shown>>

\* X.k = v on an instance
Rebind ==
    /\ edits < MaxEdits
    /\ \E i \in 1..Len(inst) : \E k \in EditNames : \E v \in Vals :
         /\ inst[i].fields[k] # v
         /\ inst' = [inst EXCEPT ![i].fields[k] = v]
         /\ last' = Outcome("rebind", i, k, 0, "none")
    /\ edits' = edits + 1
    /\ UNCHANGED <<bufs, maps, file, argK, argP, argA, env, shown>>

-----------------------------------------------------------------------------
(* What the plot methods draw.  The instance a Render action plots has the *)
(* payload given as the action's input and every attribute its plot reads. *)

\* bounds of the rendered data
\* speed steps and modes of a Campbell payload
NSpeeds == 2
NModes == 2

\* the name show() gives the file when output_file was never called: that of
\* the running script
ScriptFile == "script.html"

\* if output_html: output_file(name)
OutputFile(e, flag, name) == IF flag THEN [e EXCEPT !.file = name] ELSE e

\* show(obj): bokeh saves obj to the file its state holds and opens it
ShowWrites(e) == IF e.file = "" THEN ScriptFile ELSE e.file

\* an optional figure or axes argument
Optional == {"omitted", "given"}

-----------------------------------------------------------------------------
(* CampbellResults.plot: the payload is [speed step, mode, quantity] with  *)
(* the quantities wd, log_dec, whirl, speed, wn in columns 0..4; whirl is  *)
(* kept doubled, 0, 1, 2 for 0.0, 0.5, 1.0                                 *)

\* the whirl of one mode over the speed steps: forward at every step, mixed
\* at every step, or forward at the first step and backward afterwards
WhirlPatterns ==
    {[s \in 1..NSpeeds |-> v] : v \in {0, 1}}
    \cup {[s \in 1..NSpeeds |-> IF s = 1 THEN 0 ELSE 2]}

CampbellPayloads ==
    {[s \in 1..NSpeeds |-> [m \in 1..NModes |->
        <<10 * s + m, m, W[m][s], 100 * s, 10 * s + m + 5>>]] :
     W \in [1..NModes -> WhirlPatterns]}

\* self[..., q]
Quantity(P, q) == [s \in 1..Len(P) |-> [m \in 1..Len(P[s]) |-> P[s][m][q + 1]]]

\* A[:, i]
ModeColumn(A, i) == [s \in 1..Len(A) |-> A[s][i]]

\* zip(["^", "o", "v"], [0.0, 0.5, 1.0], ...)
Marks == <<[mark |-> "^", whirl_dir |-> 0], [mark |-> "o", whirl_dir |-> 1],
           [mark |-> "v", whirl_dir |-> 2]>>

\* variant: the mask takes every whirl from whirl_dir upwards
WhirlMaskAtLeast(whirl_i, whirl_dir) ==
    [s \in 1..Len(whirl_i) |-> whirl_i[s] >= whirl_dir]

\* whirl_mask = whirl_i == whirl_dir
WhirlMask(whirl_i, whirl_dir) ==
    [s \in 1..Len(whirl_i) |-> whirl_i[s] = whirl_dir]

\* v[mask]
RECURSIVE Masked(_, _)
Masked(v, mask) ==
    IF v = <<>> THEN <<>>
    ELSE (IF Head(mask) THEN <<Head(v)>> ELSE <<>>)
         \o Masked(Tail(v), Tail(mask))

\* wn after "if wn is True: wn = self[..., 4]": the flag as given, or the
\* array that replaced it
WnBound(P, wn) ==
    IF wn THEN [tp |-> "array", a |-> Quantity(P, 4)]
    ELSE [tp |-> "bool", a |-> <<>>]

\* "wn is True" inside the loop: only the object True itself
WnIsTrue(w, given) == w.tp = "bool" /\ given

\* the points of one scatter call: x, y and colour of the masked steps
ScatterPoints(P, w, given, i, whirl_dir) ==
    LET mask == WhirlMask(ModeColumn(Quantity(P, 2), i), whirl_dir)
        w_i == IF WnIsTrue(w, given) THEN ModeColumn(w.a, i)
               ELSE ModeColumn(Quantity(P, 0), i)
        x == Masked(ModeColumn(Quantity(P, 3), i), mask)
        y == Masked(w_i, mask)
        c == Masked(ModeColumn(Quantity(P, 1), i), mask)
    IN  [k \in 1..Len(x) |-> [x |-> x[k], y |-> y[k], c |-> c[k]]]

\* the scatter calls of the two nested loops, in the order they are made
Scatters(P, wn) ==
    LET n == Len(P[1])
        w == WnBound(P, wn)
    IN  [k \in 1..(Len(Marks) * n) |->
            LET mk == Marks[((k - 1) \div n) + 1]
                i == ((k - 1) % n) + 1
            IN  [mark |-> mk.mark, mode |-> i,
                 pts |-> ScatterPoints(P, w, wn, i, mk.whirl_dir)]]

\* fig and ax after "if fig is None and ax is None: fig, ax = plt.subplots()"
CampbellFig(fig, ax) == IF fig = "omitted" /\ ax = "omitted" THEN "given" ELSE fig
CampbellAx(fig, ax) == IF fig = "omitted" /\ ax = "omitted" THEN "given" ELSE ax

RenderCampbell ==
    /\ \E P \in CampbellPayloads : \E wn \in BOOLEAN : \E flag \in BOOLEAN :
       \E fig \in Optional : \E ax \in Optional :
         LET e == OutputFile(env, flag, "Campbell_diagram.html")
             arg == [payload |-> P, wn |-> wn, fig |-> fig, ax |-> ax]
         IN  /\ env' = e
             /\ IF CampbellAx(fig, ax) = "omitted"
                THEN \* ax.scatter on None
                     shown' = Shown("campbell", flag, "", "AttributeError",
                                    arg, [mpl |-> <<>>, bk |-> <<>>,
                                          ret |-> FALSE])
                ELSE \E sc \in {Scatters(P, wn)} :
                     \* without fig: len(fig.axes) on None, after show(camp)
                     shown' = Shown("campbell", flag, ShowWrites(e),
                                    IF CampbellFig(fig, ax) = "omitted"
                                    THEN "AttributeError" ELSE "none",
                                    arg, [mpl |-> sc, bk |-> sc,
                                          ret |-> CampbellFig(fig, ax)
                                                    = "given"])
    /\ UNCHANGED <<inst, bufs, maps, file, last, argK, argP, argA, edits>>

-----------------------------------------------------------------------------
(* ConvergenceResults.plot: the payload has the element numbers, the       *)
(* eigenvalues and the relative errors in rows 0, 1, 2                     *)

\* refinement steps of a convergence payload
NPoints == 2

ConvergencePayloads ==
    {<<[k \in 1..NPoints |-> el * k], eig, err>> :
        el \in {2, 4}, eig \in [1..NPoints -> {10, 11, 13}],
        err \in [1..NPoints -> {0, 9}]}

\* variant: the error is worked out again from consecutive eigenvalues
ErrorRecomputed(P) ==
    [k \in 1..Len(P[2]) |->
        IF k = 1 THEN 0 ELSE IAbs(P[2][k] - P[2][k - 1])]

\* error_arr = np.array(self[2])
ErrorArr(P) == P[3]

\* ColumnDataSource(data=dict(x0=el_num, y0=eigv_arr, x1=el_num, y1=error_arr))
ConvergenceSource(P) ==
    [x0 |-> P[1], y0 |-> P[2], x1 |-> P[1], y1 |-> ErrorArr(P)]

RenderConvergence ==
    /\ \E P \in ConvergencePayloads : \E flag \in BOOLEAN :
         LET e == OutputFile(env, flag, "convergence.html")
             source == ConvergenceSource(P)
         IN  /\ env' = e
             /\ shown' = Shown("convergence", flag, ShowWrites(e), "none",
                               [payload |-> P],
                               [freq_arr |-> [x |-> source.x0, y |-> source.y0],
                                rel_error |-> [x |-> source.x1,
                                               y |-> source.y1]])
    /\ UNCHANGED <<inst, bufs, maps, file, last, argK, argP, argA, edits>>

-----------------------------------------------------------------------------
(* StaticResults.plot: what is modelled is the file, the interpolation of  *)
(* the displacement and the loop that draws the bending moment             *)

\* the largest number of nodes of a shaft
MaxNodes == 5

\* interp1d(..., kind="cubic") needs four points
CubicPoints == 4

\* the while loop from "i = 0": one segment [i, i + 2] of node indices per
\* iteration, until i + 3 > len(nodes)
RECURSIVE BMSegments(_, _)
BMSegments(i, n) ==
    IF i + 3 > n THEN <<>>
    ELSE <<[from |-> i, to |-> i + 2, used |-> {i, i + 1, i + 2}]>>
         \o BMSegments(i + 2, n)

RenderStatic ==
    /\ \E n \in 0..MaxNodes : \E flag \in BOOLEAN :
         LET e == OutputFile(env, flag, "static_analysis.html")
         IN  /\ env' = e
             /\ shown' =
                  IF n < CubicPoints
                  THEN Shown("static", flag, "", "ValueError", [n |-> n],
                             [BM |-> <<>>])
                  ELSE Shown("static", flag, ShowWrites(e), "none", [n |-> n],
                             [BM |-> BMSegments(0, n)])
    /\ UNCHANGED <<inst, bufs, maps, file, last, argK, argP, argA, edits>>

-----------------------------------------------------------------------------
(* FrequencyResponseResults and ForcedResponseResults.  A curve of the     *)
(* frequency response is named by the slice it draws, mag[inp, out, :];    *)
(* a curve of the forced response is the values it draws.  The axes given  *)
(* to plot are the pair the caller keeps, or both omitted.                 *)

\* degrees of freedom of the response arrays
NDof == 2
\* curves the caller's axes may hold
MaxCurves == 2

Dofs == 0..(NDof - 1)

\* the axes a call with (ax0, ax1) given or omitted draws on start with
\* env.held0, env.held1 curves, or empty
AxesAfter(e, axes, n0, n1) ==
    IF axes = "given"
    THEN [e EXCEPT !.held0 = @ + n0, !.held1 = @ + n1]
    ELSE e

\* FrequencyResponseResults.plot_magnitude(inp, out, ax): the curve added to
\* ax and the line of the bokeh figure returned with it
FreqPlotMagnitude(inp, out) ==
    [curve |-> [q |-> "magnitude", inp |-> inp, out |-> out],
     bk |-> [q |-> "magnitude", inp |-> inp, out |-> out]]

FreqPlotPhase(inp, out) ==
    [curve |-> [q |-> "phase", inp |-> inp, out |-> out],
     bk |-> [q |-> "phase", inp |-> inp, out |-> out]]

RenderFrequencyResponse ==
    /\ \E inp \in Dofs : \E out \in Dofs : \E flag \in BOOLEAN :
       \E axes \in Optional :
         LET e == OutputFile(env, flag, "freq_response.html")
             \* ax0 = self.plot_magnitude(inp, out, ax=ax0)[0], and again
             \* for its bokeh figure
             m1 == FreqPlotMagnitude(inp, out)
             p1 == FreqPlotPhase(inp, out)
             m2 == FreqPlotMagnitude(inp, out)
             p2 == FreqPlotPhase(inp, out)
         IN  /\ axes = "given" => env.held0 + 2 <= MaxCurves
             /\ env' = AxesAfter(e, axes, 2, 2)
             /\ shown' = Shown("freq", flag, ShowWrites(e), "none",
                               [inp |-> inp, out |-> out, axes |-> axes],
                               [ax0 |-> <<m1.curve, m2.curve>>,
                                ax1 |-> <<p1.curve, p2.curve>>,
                                bk0 |-> <<m2.bk>>, bk1 |-> <<p2.bk>>])
    /\ UNCHANGED <<inst, bufs, maps, file, last, argK, argP, argA, edits>>

\* self.magnitude and self.phase of a forced response: [dof, frequency]
ForcedMagnitude == [d \in Dofs |-> <<d + 1, d + 3>>]
ForcedPhase == [d \in Dofs |-> <<d, d + 1>>]

\* 2 * mag * 1e6
MicPkPk(mag) == [f \in 1..Len(mag) |-> 2 * mag[f] * 1000000]

\* the units keyword of a call: left out, or one of these
Units == {"unset", "m", "mic-pk-pk", "in"}

\* ForcedResponseResults.plot_magnitude(dof, ax, units): the curve added to
\* ax, the unit of the y label set on ax ("": none set), the line and the
\* label of the bokeh figure, and the error the call ends in
ForcedPlotMagnitude(dof, units) ==
    CASE units = "m" ->
           [curve |-> ForcedMagnitude[dof], ylabel |-> "m",
            bk |-> <<[y |-> ForcedMagnitude[dof], label |-> "m"]>>,
            err |-> "none"]
      [] units = "mic-pk-pk" ->
           [curve |-> MicPkPk(ForcedMagnitude[dof]), ylabel |-> "mic-pk-pk",
            bk |-> <<[y |-> MicPkPk(ForcedMagnitude[dof]),
                      label |-> "mic-pk-pk"]>>,
            err |-> "none"]
      [] OTHER ->
           \* y_axis_label is not bound when figure(...) reads it
           [curve |-> ForcedMagnitude[dof], ylabel |-> "", bk |-> <<>>,
            err |-> "UnboundLocalError"]

ForcedPlotPhase(dof) ==
    [curve |-> ForcedPhase[dof], bk |-> <<[y |-> ForcedPhase[dof]]>>]

\* units as plot_magnitude receives it: its default when kwargs has none
UnitsOr(units) == IF units = "unset" THEN "m" ELSE units

RenderForcedResponse ==
    /\ \E dof \in Dofs : \E flag \in BOOLEAN : \E axes \in Optional :
       \E units \in Units :
         LET arg == [dof |-> dof, units |-> units, axes |-> axes]
             \* ax0 = self.plot_magnitude(dof, ax=ax0, **kwargs)[0]
             m1 == ForcedPlotMagnitude(dof, UnitsOr(units))
             p1 == ForcedPlotPhase(dof)
             \* after kwargs.pop("units", None)
             m2 == ForcedPlotMagnitude(dof, UnitsOr("unset"))
             p2 == ForcedPlotPhase(dof)
             e == OutputFile(env, flag, "forced_rsponse.html")
         IN  /\ axes = "given" => env.held0 + 2 <= MaxCurves
             /\ IF m1.err # "none"
                THEN /\ env' = AxesAfter(env, axes, 1, 0)
                     /\ shown' = Shown("forced", flag, "", m1.err, arg,
                                   [ax0 |-> <<m1.curve>>, ax1 |-> <<>>,
                                    label0 |-> m1.ylabel,
                                    bk0 |-> <<>>, bk1 |-> <<>>])
                ELSE /\ env' = AxesAfter(e, axes, 2, 2)
                     /\ shown' = Shown("forced", flag, ShowWrites(e), "none",
                                   arg,
                                   [ax0 |-> <<m1.curve, m2.curve>>,
                                    ax1 |-> <<p1.curve, p2.curve>>,
                                    label0 |-> m2.ylabel,
                                    bk0 |-> m2.bk, bk1 |-> p2.bk])
    /\ UNCHANGED <<inst, bufs, maps, file, last, argK, argP, argA, edits>>

-----------------------------------------------------------------------------
(* FrequencyResponseResults.plot_freq_response_grid(outs, inps, ax)        *)

\* the longest list of inputs or outputs
MaxList == 2

\* the lists tried for outs and inps: indices in increasing order
RECURSIVE Increasing(_)
Increasing(l) ==
    IF Len(l) < 2 THEN TRUE
    ELSE l[1] < l[2] /\ Increasing(Tail(l))

IndexLists ==
    UNION {{l \in [1..n -> Dofs] : Increasing(l)} : n \in 1..MaxList}

\* plt.subplots(nrows, ncols): the shape of the array of axes it returns
\* (squeeze: a single column gives a one-dimensional array)
SubplotsShape(nrows, ncols) ==
    IF ncols = 1 THEN <<nrows>> ELSE <<nrows, ncols>>

\* ax[index] is inside an array of this shape
InGrid(shape, index) ==
    /\ Len(index) = Len(shape)
    /\ \A d \in DOMAIN shape : index[d] >= 0 /\ index[d] < shape[d]

\* the plot_magnitude and plot_phase calls the loops make, in order: the axes
\* indexed and the values bound to the parameters inp and out of the callee,
\* whose signature is (inp, out, ax)
GridCalls(outs, inps) ==
    IF Len(outs) > 1
    THEN [k \in 1..(2 * Len(outs) * Len(inps)) |->
            LET i == (k - 1) \div (2 * Len(inps))
                j == ((k - 1) % (2 * Len(inps))) \div 2
                ph == (k - 1) % 2
            IN  [q |-> IF ph = 0 THEN "magnitude" ELSE "phase",
                 index |-> <<2 * i + ph, j>>,
                 inp |-> outs[i + 1], out |-> inps[j + 1]]]
    ELSE [k \in 1..(2 * Len(inps)) |->
            LET i == (k - 1) \div 2
                ph == (k - 1) % 2
            IN  [q |-> IF ph = 0 THEN "magnitude" ELSE "phase",
                 index |-> <<2 * i + ph>>,
                 inp |-> outs[1], out |-> inps[i + 1]]]

\* the calls made before the first ax[...] that raises IndexError
RECURSIVE Drawable(_, _)
Drawable(calls, shape) ==
    IF calls = <<>> \/ ~InGrid(shape, Head(calls).index) THEN <<>>
    ELSE <<Head(calls)>> \o Drawable(Tail(calls), shape)

RenderGrid ==
    /\ \E outs \in IndexLists : \E inps \in IndexLists : \E ax \in Optional :
         LET \* ax given: of the shape the docstring asks for
             shape == SubplotsShape(2 * Len(inps), Len(outs))
             calls == GridCalls(outs, inps)
             drawn == Drawable(calls, shape)
         IN  shown' = Shown("grid", FALSE, "",
                            IF Len(drawn) < Len(calls) THEN "IndexError"
                            ELSE "none",
                            [outs |-> outs, inps |-> inps, ax |-> ax],
                            [shape |-> shape, drawn |-> drawn])
    /\ UNCHANGED <<inst, bufs, maps, file, last, argK, argP, argA, edits, env>>

-----------------------------------------------------------------------------
(* Specifications *)

\* the container: creation, derivation, save and load, and its own plot
Next == Create \/ Slice \/ Copy \/ Save \/ Load \/ PlotBase

Spec == Init /\ [][Next]_vars

\* a stored file that is damaged before it is loaded
NextStore == Create \/ Save \/ Truncate \/ Corrupt \/ Load

\* the files are those of results that carry all their attributes
InitStore == Init /\ Keys(argA.m) = Required(argK)

SpecStore == InitStore /\ [][NextStore]_vars

\* the renderers on created and derived instances
NextPlot == Create \/ Slice \/ Copy \/ Plot

SpecPlot == Init /\ [][NextPlot]_vars

\* a caller that keeps using the dict it passed and rebinds fields
NextAlias == Create \/ Slice \/ Save \/ Load \/ SetItem \/ Rebind

SpecAlias == Init /\ [][NextAlias]_vars

\* the plot methods as seen by what they draw and write: the instances
\* plotted are not those of inst
InitRender == Init /\ argK = "Results" /\ Keys(argA.m) = GenericNames

NextRender ==
    \/ RenderCampbell
    \/ RenderFrequencyResponse
    \/ RenderForcedResponse
    \/ RenderGrid
    \/ RenderStatic
    \/ RenderConvergence

SpecRender == InitRender /\ [][NextRender]_vars

\* the Campbell diagram alone
NextCampbell == RenderCampbell

SpecCampbell == InitRender /\ [][NextCampbell]_vars

\* the convergence plot alone
NextConvergence == RenderConvergence

SpecConvergence == InitRender /\ [][NextConvergence]_vars

-----------------------------------------------------------------------------
(* Properties *)

Created(i) == i # 0 /\ inst[i].how = "create"

\* C1: an instance made by create(P, A), saved and loaded again, comes back
\* with payload P element for element, with registry A and with every
\* attribute of A as a field; neither the save nor the load fails.
C1_RoundTrip ==
    /\ (last.op = "save" /\ Created(last.who)) => last.err = "none"
    /\ (last.op = "load" /\ last.inp = "none" /\ Created(last.who)) =>
          /\ last.err = "none"
          /\ last.res # 0
          /\ inst[last.res].cls = argK
          /\ Payload(inst[last.res]) = argP
          /\ inst[last.res].fields = argA.m
          /\ HasRegistry(inst[last.res])
          /\ maps[inst[last.res].reg] = argA.m

C1_Witness ==
    /\ last.op = "load" /\ last.err = "none" /\ Created(last.who)
    /\ Keys(argA.m) # {}
    /\ Payload(inst[last.res]) = argP

\* C2: a slice X[S] of any instance X, whether X was created, loaded or is
\* itself a slice or a copy, exposes the attribute names and values of X.
C2_SliceKeepsAttributes ==
    (last.op = "slice" /\ last.res # 0) =>
        inst[last.res].fields = inst[last.who].fields

\* C3: after any sequence of copy, slice, save and load starting from
\* create(P, A), every operation has succeeded, every instance has the
\* attributes of A, and a saved file holds the whole mapping A.
C3_ChainKeepsAttributes ==
    /\ last.op \in {"slice", "copy", "save", "load"} => last.err = "none"
    /\ \A i \in 1..Len(inst) : inst[i].fields = argA.m
    /\ file.damage = "none" => file.state[Len(file.state)].m = argA.m

\* C4: create with a new_attributes argument that is no mapping (None, a
\* list, a scalar) raises and returns no instance.
C4_NonMappingRejected ==
    (last.op = "create" /\ last.inp # "dict") =>
        (last.err = "AttributeError" /\ last.res = 0)

C4_Witness ==
    last.op = "create" /\ last.inp = "None" /\ last.err = "AttributeError"

C6_PlotNeverMutates ==
    [][last'.op = "plot" => (bufs' = bufs /\ inst' = inst /\ maps' = maps)]_vars

\* C7: what an instance created from A hands to a slice and what it writes
\* when saved is A as it was at creation, whatever the caller did afterwards
\* to the dict it passed or to the fields of the instance.
C7_AttributesFixedAtCreation ==
    /\ (last.op = "slice" /\ last.res # 0 /\ Created(last.who)) =>
          inst[last.res].fields = argA.m
    /\ (last.op = "save" /\ last.err = "none" /\ Created(last.who)) =>
          file.state[Len(file.state)].m = argA.m

\* C8: a derivation from a source without _new_attributes (the plain array
\* viewed in __new__, or an instance that is itself a slice or a copy)
\* completes without raising and the derived instance gets no attribute.
C8_NoRegistryNoPropagation ==
    /\ (last.op = "create" /\ last.inp = "dict") =>
          (last.err = "none" /\ inst[last.res].fields = argA.m)
    /\ (last.op \in {"slice", "copy"} /\ ~HasRegistry(inst[last.who])) =>
          /\ last.err = "none"
          /\ last.res # 0
          /\ inst[last.res].fields = EmptyMap
          /\ ~HasRegistry(inst[last.res])

C8_Witness ==
    /\ last.op = "slice" /\ last.res # 0
    /\ ~HasRegistry(inst[last.who])
    /\ Keys(inst[last.who].fields) # {}
    /\ inst[last.res].fields = EmptyMap

\* C9: plot on a base Results instance always ends in NotImplementedError
\* and leaves every payload and attribute as it was.
C9_BasePlotUnsupported ==
    [][(last'.op = "plot" /\ inst[last'.who].cls = "Results") =>
          /\ last'.err = "NotImplementedError"
          /\ bufs' = bufs /\ inst' = inst /\ maps' = maps]_vars

C9_Witness ==
    /\ last.op = "plot" /\ last.err = "NotImplementedError"
    /\ inst[last.who].cls = "Results"

\* C10: a plot call that ends in AttributeError because a required
\* attribute is missing has changed no payload and no attribute.
C10_FailedPlotHasNoEffect ==
    [][(last'.op = "plot" /\ last'.err = "AttributeError") =>
          (bufs' = bufs /\ inst' = inst /\ maps' = maps)]_vars

\* the Campbell call in shown got as far as drawing on an axes
CampbellDrawn == shown.op = "campbell" /\ shown.out.mpl # <<>>

\* the speeds of the points that the series of marker mark holds for mode m
SeriesSpeeds(series, mark, m) ==
    UNION {{series[k].pts[j].x : j \in DOMAIN series[k].pts} :
           k \in {k \in DOMAIN series :
                     series[k].mark = mark /\ series[k].mode = m}}

RECURSIVE NumPoints(_)
NumPoints(series) ==
    IF series = <<>> THEN 0
    ELSE Len(Head(series).pts) + NumPoints(Tail(series))

\* the doubled whirl a marker stands for: forward, mixed, backward
WhirlOf(mark) == CASE mark = "^" -> 0 [] mark = "o" -> 1 [] mark = "v" -> 2

\* C12: in a Campbell plot, on both backends, the point of speed step s and
\* mode m is in the series of marker ^ iff its whirl is 0.0, of o iff it is
\* 0.5, of v iff it is 1.0, and in no series twice; a mode that is forward
\* at every step has all its points under ^ and none under o and v.
C12_WhirlSelectsSeries ==
    CampbellDrawn =>
        \A series \in {shown.out.mpl, shown.out.bk} :
            /\ \A s \in 1..NSpeeds : \A m \in 1..NModes :
               \A mark \in {"^", "o", "v"} :
                  (shown.arg.payload[s][m][4]
                      \in SeriesSpeeds(series, mark, m))
                  <=> shown.arg.payload[s][m][3] = WhirlOf(mark)
            /\ NumPoints(series) = NSpeeds * NModes

C12_Witness ==
    /\ CampbellDrawn /\ shown.err = "none"
    /\ \A s \in 1..NSpeeds : shown.arg.payload[s][1][3] = 0
    /\ Cardinality(SeriesSpeeds(shown.out.bk, "^", 1)) = NSpeeds
    /\ SeriesSpeeds(shown.out.bk, "o", 1) = {}
    /\ SeriesSpeeds(shown.out.bk, "v", 1) = {}
    /\ \E s \in 1..NSpeeds : shown.arg.payload[s][NModes][3] = 2

\* C16: a Campbell plot completes and returns (fig, ax) whichever of fig
\* and ax are supplied.
C16_FigAxOptional ==
    shown.op = "campbell" => (shown.err = "none" /\ shown.out.ret)

\* C17: every point of a Campbell plot has as y the undamped natural
\* frequency (column 4) of its speed step and mode when wn = True, and the
\* damped one (column 0) when wn = False.
C17_WnSelectsFrequency ==
    CampbellDrawn =>
        \A k \in DOMAIN shown.out.mpl : \A j \in DOMAIN shown.out.mpl[k].pts :
            \E s \in 1..NSpeeds :
                LET row == shown.arg.payload[s][shown.out.mpl[k].mode]
                    pt == shown.out.mpl[k].pts[j]
                IN  /\ pt.x = row[4]
                    /\ pt.y = IF shown.arg.wn THEN row[5] ELSE row[1]

\* C13: the series a convergence plot hands to its two figures are rows 0,
\* 1 and 2 of the payload as supplied: the relative error drawn is row 2
\* whatever the eigenvalues are.
C13_ConvergencePassThrough ==
    shown.op = "convergence" =>
        /\ shown.err = "none"
        /\ shown.out.freq_arr.x = shown.arg.payload[1]
        /\ shown.out.freq_arr.y = shown.arg.payload[2]
        /\ shown.out.rel_error.x = shown.arg.payload[1]
        /\ shown.out.rel_error.y = shown.arg.payload[3]

C13_Witness ==
    /\ shown.op = "convergence"
    /\ shown.arg.payload[2][1] # shown.arg.payload[2][2]
    /\ shown.out.rel_error.y = [k \in 1..NPoints |-> 0]

\* C19: the bending-moment loop of a static plot ends, and for three or
\* more nodes its segments start at node 0, join one another and end at the
\* last node n - 1, each using only node indices below n.
C19_BendingMomentSpansShaft ==
    (shown.op = "static" /\ shown.err = "none" /\ shown.arg.n >= 3) =>
        LET seg == shown.out.BM
        IN  /\ seg # <<>>
            /\ seg[1].from = 0
            /\ \A k \in 1..(Len(seg) - 1) : seg[k].to = seg[k + 1].from
            /\ seg[Len(seg)].to = shown.arg.n - 1
            /\ \A k \in DOMAIN seg : \A i \in seg[k].used : i < shown.arg.n

\* magnitude[dof] in the unit asked for
ExpectedMagnitude(dof, units) ==
    IF units = "mic-pk-pk"
    THEN [f \in 1..Len(ForcedMagnitude[dof]) |->
             2 * ForcedMagnitude[dof][f] * 1000000]
    ELSE ForcedMagnitude[dof]

\* C14: after ForcedResponseResults.plot(dof, units=u), u one of "m" and
\* "mic-pk-pk", every magnitude curve on the static axes and in the
\* interactive figure is magnitude[dof] in unit u (doubled and times 1e6
\* for mic-pk-pk) and both carry the label of u.
C14_BackendsSameData ==
    (shown.op = "forced" /\ shown.arg.units \in {"m", "mic-pk-pk"}) =>
        /\ shown.err = "none"
        /\ shown.out.ax0 # <<>> /\ shown.out.bk0 # <<>>
        /\ \A k \in DOMAIN shown.out.ax0 :
              shown.out.ax0[k] =
                  ExpectedMagnitude(shown.arg.dof, shown.arg.units)
        /\ shown.out.label0 = shown.arg.units
        /\ \A k \in DOMAIN shown.out.bk0 :
              /\ shown.out.bk0[k].y =
                    ExpectedMagnitude(shown.arg.dof, shown.arg.units)
              /\ shown.out.bk0[k].label = shown.arg.units

\* C18: a call of FrequencyResponseResults.plot or ForcedResponseResults.plot
\* that returns has added one magnitude curve to ax0 and one phase curve to
\* ax1, as many as each interactive figure holds; so the caller's axes hold
\* one curve per call made on them.
C18_OneCurvePerCall ==
    (shown.op \in {"freq", "forced"} /\ shown.err = "none") =>
        /\ Len(shown.out.ax0) = 1 /\ Len(shown.out.ax1) = 1
        /\ Len(shown.out.bk0) = 1 /\ Len(shown.out.bk1) = 1

\* the calls of quantity q drawn for input inp and output out
GridDrawn(q, inp, out) ==
    {k \in DOMAIN shown.out.drawn :
        /\ shown.out.drawn[k].q = q
        /\ shown.out.drawn[k].inp = inp
        /\ shown.out.drawn[k].out = out}

\* C15: plot_freq_response_grid(outs, inps) with ax omitted ends without
\* error on a grid of 2 * len(inps) rows and len(outs) columns, draws the
\* magnitude and the phase of every pair (inp, out) once, each call in its
\* own axes, with inp bound to the callee's inp and out to its out.
C15_GridDrawsEveryPair ==
    (shown.op = "grid" /\ shown.arg.ax = "omitted") =>
        /\ shown.err = "none"
        /\ \A a \in DOMAIN shown.arg.inps : \A b \in DOMAIN shown.arg.outs :
           \A q \in {"magnitude", "phase"} :
              Cardinality(GridDrawn(q, shown.arg.inps[a], shown.arg.outs[b]))
                  = 1
        /\ \A k \in DOMAIN shown.out.drawn : \A l \in DOMAIN shown.out.drawn :
              k # l => shown.out.drawn[k].index # shown.out.drawn[l].index

\* the files the renderers name
HtmlFiles ==
    {"Campbell_diagram.html", "freq_response.html", "forced_rsponse.html",
     "static_analysis.html", "convergence.html"}

\* the file the renderer of a plot call names
HtmlFileOf(op) ==
    CASE op = "campbell" -> "Campbell_diagram.html"
      [] op = "freq" -> "freq_response.html"
      [] op = "forced" -> "forced_rsponse.html"
      [] op = "static" -> "static_analysis.html"
      [] op = "convergence" -> "convergence.html"
      [] OTHER -> ""

\* C11: whatever calls came before, a plot call made with output_html unset
\* writes none of the renderers' files, and one made with it set writes no
\* file but its own renderer's.
C11_CallsIndependent ==
    /\ (shown.op # "none" /\ ~shown.flag) => shown.wrote \notin HtmlFiles
    /\ (shown.op # "none" /\ shown.flag) =>
          shown.wrote \in {"", HtmlFileOf(shown.op)}

====
